---------------------------- MODULE Spec2Model ----------------------------
(***************************************************************************)
(* A model of the three scripts of parse_to_json:                          *)
(*   parse_data_to_json.py  text lines -> records     (Spec, ExtractSpec)  *)
(*   actionable_ritm.py     records x open dates -> records  (FilterSpec)  *)
(*   roller.py              records -> groups -> DEALS.DAT   (RollerSpec)  *)
(*                                                                         *)
(* A Python str is a sequence of one-character strings, so that split,     *)
(* join, upper, startswith, the regular expressions and strptime/strftime  *)
(* are computed character by character.  A Python dict is a function whose *)
(* DOMAIN is its keys.  Indices (idx, line_num) keep Python's 0-based      *)
(* values; parts[idx] of the source is parts[idx + 1] here.                *)
(***************************************************************************)
EXTENDS Integers, Sequences, FiniteSets

VARIABLES
    \* parse_data_to_json.py: parse_file / parse_line
    lines,            \* the input file: a sequence of lines, each line given by its tokens
    line_num,         \* lines consumed so far by the for loop of parse_file
    pc,               \* "read" | "cat" | "name" | "dates" | "returned" | "failed"
    parts,            \* parse_line: line.strip().split()
    idx,              \* parse_line: idx
    cat_item_parts,   \* parse_line: cat_item_parts
    name_parts,       \* parse_line: name_parts
    records,          \* parse_file: records
    outcome,          \* how the latest parse_line call ended
    \* parse_data_to_json.py: extract_files
    text,             \* extract_files: text
    unique_files,     \* extract_files: the returned list
    epc,              \* "call" | "returned"
    \* actionable_ritm.py
    date_lines,       \* the lines of open_dates.txt
    open_dates,       \* load_open_dates: open_dates
    in_records,       \* filter_valid_records: records
    valid_records,    \* filter_valid_records: the returned list
    fpc,              \* "load" | "filter" | "returned"
    \* roller.py
    json_records,     \* main: records
    rec_i,            \* group_records_by_date: records consumed by the for loop
    cob_date,         \* group_records_by_date: cob_date of the latest record
    grouped,          \* group_records_by_date: grouped (without seen_files once returned)
    todo,             \* process_grouped: the sorted keys still to be handled
    staging,          \* the file tmp/DEALS.DAT: absent, or its content
    dest,             \* the files w_bypass/<cob_date>/DEALS.DAT: cob_date -> content
    rpc               \* "group" | "process" | "copy" | "done" | "raised"

pvars == <<lines, line_num, pc, parts, idx, cat_item_parts, name_parts, records, outcome>>
evars == <<text, unique_files, epc>>
fvars == <<date_lines, open_dates, in_records, valid_records, fpc>>
rvars == <<json_records, rec_i, cob_date, grouped, todo, staging, dest, rpc>>
vars == <<pvars, evars, fvars, rvars>>

-----------------------------------------------------------------------------
(* Characters and strings *)

UpperLetters == <<"A","B","C","D","E","F","G","H","I","J","K","L","M",
                  "N","O","P","Q","R","S","T","U","V","W","X","Y","Z">>
LowerLetters == <<"a","b","c","d","e","f","g","h","i","j","k","l","m",
                  "n","o","p","q","r","s","t","u","v","w","x","y","z">>
DigitChars == <<"0","1","2","3","4","5","6","7","8","9">>

IsUpperChar(c) == \E i \in DOMAIN UpperLetters : UpperLetters[i] = c
IsLowerChar(c) == \E i \in DOMAIN LowerLetters : LowerLetters[i] = c
IsDigit(c) == \E i \in DOMAIN DigitChars : DigitChars[i] = c
IsSpace(c) == c \in {" ", "\t", "\n"}

\* str.upper(), one character
UpperChar(c) ==
    IF IsLowerChar(c)
        THEN UpperLetters[CHOOSE i \in DOMAIN LowerLetters : LowerLetters[i] = c]
        ELSE c

\* str.upper()
Upper(s) == [i \in DOMAIN s |-> UpperChar(s[i])]

\* str.startswith(prefix)
StartsWith(s, prefix) ==
    /\ Len(s) >= Len(prefix)
    /\ SubSeq(s, 1, Len(prefix)) = prefix

\* sep.join(strs)
RECURSIVE Join(_, _)
Join(strs, sep) ==
    IF strs = <<>> THEN <<>>
    ELSE IF Len(strs) = 1 THEN strs[1]
    ELSE strs[1] \o sep \o Join(Tail(strs), sep)

\* s.split(c) for a one-character separator c
RECURSIVE SplitFrom(_, _, _, _, _)
SplitFrom(s, c, i, cur, acc) ==
    IF i > Len(s) THEN Append(acc, cur)
    ELSE IF s[i] = c THEN SplitFrom(s, c, i + 1, <<>>, Append(acc, cur))
    ELSE SplitFrom(s, c, i + 1, Append(cur, s[i]), acc)

Split(s, c) == SplitFrom(s, c, 1, <<>>, <<>>)

\* s.strip()
Strip(s) ==
    LET keep == {i \in DOMAIN s : ~IsSpace(s[i])}
        lo == CHOOSE i \in keep : \A j \in keep : i <= j
        hi == CHOOSE i \in keep : \A j \in keep : i >= j
    IN  IF keep = {} THEN <<>> ELSE SubSeq(s, lo, hi)

\* the characters of s that are not c, in order
RECURSIVE Without(_, _)
Without(s, c) ==
    IF s = <<>> THEN <<>>
    ELSE IF s[1] = c THEN Without(Tail(s), c)
    ELSE <<s[1]>> \o Without(Tail(s), c)

\* The result of a call that may raise: ok = FALSE stands for the exception.
Returns(v) == [ok |-> TRUE, val |-> v]
Raises == [ok |-> FALSE, val |-> <<>>]

-----------------------------------------------------------------------------
(* parse_data_to_json.py *)

\* parse_date: day, month, year = date_str.split('/') raises ValueError unless
\* the split has exactly three pieces
parse_date(date_str) ==
    LET p == Split(date_str, "/")
    IN  IF Len(p) = 3
            THEN Returns(p[3] \o <<"/">> \o p[2] \o <<"/">> \o p[1])
            ELSE Raises

\* parse_datetime
parse_datetime(date_str, time_str) ==
    LET p == Split(date_str, "/")
    IN  IF Len(p) = 3
            THEN Returns(p[3] \o <<"/">> \o p[2] \o <<"/">> \o p[1] \o <<" ">> \o time_str)
            ELSE Raises

\* [\w] and [\w\-_] of the pattern of extract_files
IsWordChar(c) == IsUpperChar(c) \/ IsLowerChar(c) \/ IsDigit(c) \/ c = "_"
IsNameChar(c) == IsWordChar(c) \/ c = "-"

\* the first position >= i of s that holds no character of the class, Len(s) + 1 if none
WordRunEnd(s, i) ==
    LET stops == {j \in i..Len(s) : ~IsWordChar(s[j])}
    IN  IF stops = {} THEN Len(s) + 1 ELSE CHOOSE j \in stops : \A k \in stops : j <= k

NameRunEnd(s, i) ==
    LET stops == {j \in i..Len(s) : ~IsNameChar(s[j])}
    IN  IF stops = {} THEN Len(s) + 1 ELSE CHOOSE j \in stops : \A k \in stops : j <= k

\* (?:\([^)]+\))? at position p: the position after the group, 0 if no group matches
GroupEnd(s, p) ==
    LET closes == {j \in (p + 1)..Len(s) : s[j] = ")"}
        close == CHOOSE j \in closes : \A k \in closes : j <= k
    IN  IF p <= Len(s) /\ s[p] = "(" /\ closes # {} /\ close >= p + 2
            THEN close + 1
            ELSE 0

DAT == <<"D", "A", "T">>

\* (?:\.[\w]+)*\.DAT\b at position p, greedy with backtracking: the position after
\* the last .segment of the chain that reads DAT in any case, `best` if none
RECURSIVE LastDat(_, _, _)
LastDat(s, p, best) ==
    IF p + 1 <= Len(s) /\ s[p] = "." /\ IsWordChar(s[p + 1])
        THEN LET e == WordRunEnd(s, p + 1)
             IN  LastDat(s, e, IF Upper(SubSeq(s, p + 1, e - 1)) = DAT THEN e ELSE best)
        ELSE best

\* the pattern tried at position i: the position after the match, 0 if none
MatchEnd(s, i) ==
    LET n == NameRunEnd(s, i)
        g == GroupEnd(s, n)
    IN  IF ~IsNameChar(s[i]) THEN 0
        ELSE IF g # 0 THEN LastDat(s, g, 0)
        ELSE LastDat(s, n, 0)

\* re.findall(pattern, text, re.IGNORECASE) from position i on
RECURSIVE FindAll(_, _)
FindAll(s, i) ==
    IF i > Len(s) THEN <<>>
    ELSE LET e == MatchEnd(s, i)
         IN  IF e # 0 THEN <<SubSeq(s, i, e - 1)>> \o FindAll(s, e)
             ELSE FindAll(s, i + 1)

\* Dedup with a fault: exact comparison, without upper()
RECURSIVE DedupExact(_, _, _)
DedupExact(files, seen, unique) ==
    IF files = <<>> THEN unique
    ELSE IF files[1] \notin seen
        THEN DedupExact(Tail(files), seen \cup {files[1]}, Append(unique, files[1]))
        ELSE DedupExact(Tail(files), seen, unique)

\* the loop of extract_files over the matches
RECURSIVE Dedup(_, _, _)
Dedup(files, seen, unique) ==
    IF files = <<>> THEN unique
    ELSE IF Upper(files[1]) \notin seen
        THEN Dedup(Tail(files), seen \cup {Upper(files[1])}, Append(unique, files[1]))
        ELSE Dedup(Tail(files), seen, unique)

extract_files(s) == Dedup(FindAll(s, 1), {}, <<>>)


\* the literals of parse_line
RITM == <<"R","I","T","M">>
CategoryWords == {<<"R","i","s","k">>, <<"R","o","l","l","i","n","g">>}
MinFields == 8
MaxCatWords == 2
DateBlockLen == 5

\* re.match(r'\d{2}/\d{2}/\d{4}', token): a match of a prefix of the token
DateRe(t) ==
    /\ Len(t) >= 10
    /\ \A i \in {1, 2, 4, 5, 7, 8, 9, 10} : IsDigit(t[i])
    /\ t[3] = "/"
    /\ t[6] = "/"

\* CatLoopCond with a fault: the vocabulary test `or parts[idx] in [...]` is lost
CatLoopCondNoVocabulary(ps, i) ==
    IF i < Len(ps)
        THEN IF ~StartsWith(ps[i + 1], RITM) /\ ~IsUpperChar(ps[i + 1][1])
                 THEN "accept" ELSE "stop"
        ELSE "stop"

\* the condition of the while loop of line 73, `A and B and C or D`, which Python
\* reads as (A and B and C) or D: with A false, D indexes parts[idx] past the end
CatLoopCond(ps, i) ==
    IF i < Len(ps)
        THEN IF \/ (~StartsWith(ps[i + 1], RITM) /\ ~IsUpperChar(ps[i + 1][1]))
                \/ ps[i + 1] \in CategoryWords
                 THEN "accept" ELSE "stop"
        ELSE "IndexError"

\* lines 93-119 of parse_line: the record, or the ValueError of a date that does
\* not split into three pieces
BuildRecord(ps, i, cat, name) ==
    LET opened_at == parse_datetime(ps[i + 1], ps[i + 2])
        sys_updated_on == parse_datetime(ps[i + 3], ps[i + 4])
        u_desired_completion_date == parse_date(ps[i + 5])
        request_details == Join(SubSeq(ps, i + 6, Len(ps)), <<" ">>)
    IN  IF opened_at.ok /\ sys_updated_on.ok /\ u_desired_completion_date.ok
            THEN Returns([number |-> ps[1],
                          cat_item |-> Join(cat, <<" ">>),
                          requested_for |-> Join(name, <<" ">>),
                          opened_at |-> opened_at.val,
                          sys_updated_on |-> sys_updated_on.val,
                          u_desired_completion_date |-> u_desired_completion_date.val,
                          u_requestdetails |-> request_details,
                          files |-> extract_files(request_details)])
            ELSE Raises

\* Tokens of the input lines
W_RITM1 == <<"R","I","T","M","1">>
W_RITM9 == <<"R","I","T","M","9">>
W_Risk == <<"R","i","s","k">>
W_Rolling == <<"R","o","l","l","i","n","g">>
W_risk == <<"r","i","s","k">>
W_JOHN == <<"J","O","H","N">>
W_pls == <<"p","l","s">>
W_time == <<"1","0",":","1","5",":","0","0">>
D_ok == <<"0","1","/","0","3","/","2","0","2","4">>
D_feb31 == <<"3","1","/","0","2","/","2","0","2","4">>
D_extra == <<"0","1","/","0","3","/","2","0","2","4","/","9">>
D_short == <<"1","/","3","/","2","4">>
F_upper == <<"A",".","D","A","T">>
F_lower == <<"a",".","d","a","t">>
F_other == <<"B",".","D","A","T">>
F_open == <<"k","(","x">>
F_close == <<"y",")",".","D","a","t">>

\* Bounds of the input
MaxPrefix == 2
MaxLines == 2

SeqsUpTo(S, n) == UNION {[1..k -> S] : k \in 0..n}

PrefixTokens == {W_Risk, W_Rolling, W_risk, W_JOHN, W_RITM9}
Prefixes == SeqsUpTo(PrefixTokens, MaxPrefix)
Blocks ==
    {<<o, W_time, u, W_time, c>> :
        o \in {D_ok, D_extra}, u \in {D_ok, D_short}, c \in {D_ok, D_feb31, D_short, W_pls}}
    \cup {<<D_ok, W_time, D_ok, W_time>>}
Tails == {<<>>, <<W_pls>>, <<F_upper, F_lower>>}

LinesOf(ps, bs, ts) == {<<W_RITM1>> \o p \o b \o t : p \in ps, b \in bs, t \in ts}

\* one line, with every prefix, date block and tail
LineSet == LinesOf(Prefixes, Blocks, Tails) \cup {<<>>}
\* the lines of the files of several lines
FileLines == LinesOf({<<W_Risk, W_JOHN>>}, Blocks, {<<W_pls>>}) \cup {<<>>, <<W_RITM1, W_JOHN>>}
Files == {<<l>> : l \in LineSet} \cup SeqsUpTo(FileLines, MaxLines)

ExtractIdle == text = <<>> /\ unique_files = <<>> /\ epc = "idle"
FilterIdle ==
    /\ date_lines = <<>> /\ open_dates = {} /\ in_records = <<>>
    /\ valid_records = <<>> /\ fpc = "idle"
RollerIdle ==
    /\ json_records = <<>> /\ rec_i = 0 /\ cob_date = <<>> /\ grouped = <<>>
    /\ todo = <<>> /\ staging = [exists |-> FALSE, content |-> <<>>] /\ dest = <<>> /\ rpc = "idle"

Init ==
    /\ lines \in Files
    /\ line_num = 0
    /\ pc = "read"
    /\ parts = <<>>
    /\ idx = 0
    /\ cat_item_parts = <<>>
    /\ name_parts = <<>>
    /\ records = <<>>
    /\ outcome = "none"
    /\ ExtractIdle /\ FilterIdle /\ RollerIdle

\* parse_file, lines 137-138, and parse_line, lines 54-68 and 71: the next line of
\* the file is stripped and split; a blank or short line returns None
ReadLine ==
    /\ pc = "read"
    /\ line_num < Len(lines)
    /\ line_num' = line_num + 1
    /\ LET line == lines[line_num + 1]
       IN  IF line = <<>>
               THEN /\ outcome' = "blank"
                    /\ UNCHANGED <<pc, parts, idx, cat_item_parts, name_parts>>
           ELSE IF Len(line) < MinFields
               THEN /\ outcome' = "too_few"
                    /\ parts' = line
                    /\ UNCHANGED <<pc, idx, cat_item_parts, name_parts>>
           ELSE /\ outcome' = "parsing"
                /\ parts' = line
                /\ idx' = 1
                /\ cat_item_parts' = <<>>
                /\ name_parts' = <<>>
                /\ pc' = "cat"
    /\ UNCHANGED <<lines, records, evars, fvars, rvars>>

\* parse_line, lines 73-77: one evaluation of the loop condition and, if it
\* holds, one pass through the body
CatLoop ==
    /\ pc = "cat"
    /\ LET c == CatLoopCond(parts, idx)
       IN  IF c = "accept"
               THEN /\ cat_item_parts' = Append(cat_item_parts, parts[idx + 1])
                    /\ idx' = idx + 1
                    /\ pc' = IF Len(cat_item_parts) + 1 >= MaxCatWords THEN "name" ELSE "cat"
                    /\ UNCHANGED outcome
           ELSE IF c = "stop"
               THEN /\ pc' = "name"
                    /\ UNCHANGED <<idx, cat_item_parts, outcome>>
           ELSE /\ pc' = "failed"
                /\ outcome' = "raised"
                /\ UNCHANGED <<idx, cat_item_parts>>
    /\ UNCHANGED <<lines, line_num, parts, name_parts, records, evars, fvars, rvars>>

\* parse_line, lines 82-84
NameLoop ==
    /\ pc = "name"
    /\ IF idx < Len(parts) /\ ~DateRe(parts[idx + 1])
           THEN /\ name_parts' = Append(name_parts, parts[idx + 1])
                /\ idx' = idx + 1
                /\ UNCHANGED pc
           ELSE /\ pc' = "dates"
                /\ UNCHANGED <<idx, name_parts>>
    /\ UNCHANGED <<lines, line_num, parts, cat_item_parts, records, outcome>>
    /\ UNCHANGED <<evars, fvars, rvars>>

\* parse_line, lines 89-119, and parse_file, lines 139-146: the date block is
\* checked and reformatted and the record appended; an exception of parse_line
\* reaches `except Exception` of parse_file, which returns None
DateBlock ==
    /\ pc = "dates"
    /\ IF idx + DateBlockLen >= Len(parts)
           THEN /\ outcome' = "missing_date"
                /\ pc' = "read"
                /\ UNCHANGED records
           ELSE LET r == BuildRecord(parts, idx, cat_item_parts, name_parts)
                IN  IF r.ok
                        THEN /\ records' = Append(records, r.val)
                             /\ outcome' = "record"
                             /\ pc' = "read"
                        ELSE /\ outcome' = "raised"
                             /\ pc' = "failed"
                             /\ UNCHANGED records
    /\ UNCHANGED <<lines, line_num, parts, idx, cat_item_parts, name_parts>>
    /\ UNCHANGED <<evars, fvars, rvars>>

\* parse_file, lines 148 and 160: the file is exhausted, result = {"records": records}
EndOfFile ==
    /\ pc = "read"
    /\ line_num = Len(lines)
    /\ pc' = "returned"
    /\ UNCHANGED <<lines, line_num, parts, idx, cat_item_parts, name_parts, records, outcome>>
    /\ UNCHANGED <<evars, fvars, rvars>>

Next == ReadLine \/ CatLoop \/ NameLoop \/ DateBlock \/ EndOfFile

Spec == Init /\ [][Next]_vars


-----------------------------------------------------------------------------
(* Claims about parse_file and parse_line, under Spec *)

Last(q) == q[Len(q)]
Range(q) == {q[i] : i \in DOMAIN q}

\* the latest parse_line call went as far as the test of the date block
AtDateBlock == outcome \in {"missing_date", "record", "raised"}

\* YYYY/MM/DD, in full
IsYMD(d) ==
    /\ Len(d) = 10
    /\ \A i \in {1, 2, 3, 4, 6, 7, 9, 10} : IsDigit(d[i])
    /\ d[5] = "/"
    /\ d[8] = "/"

\* DD/MM/YYYY, in full
IsDMY(d) == Len(d) = 10 /\ DateRe(d)

\* C1: a line that fails drops only that line: no line makes parse_file abort the
\* batch (return None), and parse_file returns only once every line was read.
C1_FailureIsPerLine ==
    /\ pc # "failed"
    /\ pc = "returned" => line_num = Len(lines)

\* C2: a line of at least 8 tokens is rejected for missing date fields exactly when
\* fewer than 5 tokens remain at the date block; with exactly 5 remaining it yields
\* a record with empty u_requestdetails and empty files.
C2_RejectedIffFewerThanFive ==
    AtDateBlock =>
        /\ (outcome = "missing_date") <=> (Len(parts) - idx < DateBlockLen)
        /\ Len(parts) - idx = DateBlockLen =>
               /\ outcome = "record"
               /\ Last(records).u_requestdetails = <<>>
               /\ Last(records).files = <<>>

\* C3: every record has its three dates in the shape YYYY/MM/DD, and comes from a
\* line whose three date tokens have the shape DD/MM/YYYY in full.
C3_DatesHaveStrictShape ==
    /\ \A i \in DOMAIN records :
           /\ IsYMD(records[i].u_desired_completion_date)
           /\ Len(records[i].opened_at) >= 10
           /\ IsYMD(SubSeq(records[i].opened_at, 1, 10))
           /\ Len(records[i].sys_updated_on) >= 10
           /\ IsYMD(SubSeq(records[i].sys_updated_on, 1, 10))
    /\ outcome = "record" =>
           IsDMY(parts[idx + 1]) /\ IsDMY(parts[idx + 3]) /\ IsDMY(parts[idx + 5])

\* C8: cat_item of every record is one or two tokens, those that follow number,
\* and is never empty.
C8_CatItemOneOrTwoTokens ==
    /\ \A i \in DOMAIN records : records[i].cat_item # <<>>
    /\ outcome = "record" =>
           /\ Len(cat_item_parts) \in 1..MaxCatWords
           /\ cat_item_parts = SubSeq(parts, 2, 1 + Len(cat_item_parts))
           /\ Last(records).cat_item = Join(cat_item_parts, <<" ">>)

\* the condition of the category loop as the specification words it: all of
\* "does not start with RITM" and ("first character not uppercase" or "a category word")
SpecAccepts(t) ==
    /\ ~StartsWith(t, RITM)
    /\ (~IsUpperChar(t[1]) \/ t \in {W_Risk, W_Rolling})

\* the number of tokens the specified loop accepts from a line of at least 8 tokens
SpecCategoryLen(ps) ==
    IF ~SpecAccepts(ps[2]) THEN 0
    ELSE IF ~SpecAccepts(ps[3]) THEN 1
    ELSE 2

\* C10: on every line of at least 8 tokens the loop condition of the code accepts a
\* token exactly when the specified predicate holds, is only ever evaluated at an
\* index inside the line, and the loop ends at the first token that fails the
\* predicate or after 2 accepted tokens.
C10_CategoryLoopAsSpecified ==
    /\ pc = "cat" =>
           /\ idx < Len(parts)
           /\ Len(cat_item_parts) < MaxCatWords
           /\ (CatLoopCond(parts, idx) = "accept") <=> SpecAccepts(parts[idx + 1])
    /\ pc \in {"name", "dates"} =>
           /\ cat_item_parts = SubSeq(parts, 2, 1 + SpecCategoryLen(parts))
           /\ idx >= 1 + Len(cat_item_parts)

\* the loop ended after two accepted category words although the next token
\* satisfies the predicate too
C10_Witness ==
    /\ pc = "name"
    /\ cat_item_parts = <<W_Risk, W_Rolling>>
    /\ idx = 3
    /\ SpecAccepts(parts[idx + 1])

-----------------------------------------------------------------------------
(* extract_files alone *)

MaxDetailTokens == 3

DetailTokens == {F_upper, F_lower, F_other, W_pls, F_open, F_close}
\* u_requestdetails is always tokens joined by single spaces
Details == {Join(ts, <<" ">>) : ts \in SeqsUpTo(DetailTokens, MaxDetailTokens)}

ParserIdle ==
    /\ lines = <<>> /\ line_num = 0 /\ pc = "idle" /\ parts = <<>> /\ idx = 0
    /\ cat_item_parts = <<>> /\ name_parts = <<>> /\ records = <<>> /\ outcome = "none"

ExtractInit ==
    /\ text \in Details
    /\ unique_files = <<>>
    /\ epc = "call"
    /\ ParserIdle /\ FilterIdle /\ RollerIdle

\* parse_line, line 108: files = extract_files(request_details)
ExtractFiles ==
    /\ epc = "call"
    /\ unique_files' = extract_files(text)
    /\ epc' = "returned"
    /\ UNCHANGED <<text, pvars, fvars, rvars>>

ExtractNext == ExtractFiles

ExtractSpec == ExtractInit /\ [][ExtractNext]_vars

\* the index of the first element of q whose uppercased form is u
FirstUpper(q, u) ==
    CHOOSE i \in DOMAIN q : Upper(q[i]) = u /\ \A j \in 1..(i - 1) : Upper(q[j]) # u

\* C9: the files returned for the matches found in the text hold no two entries
\* with equal uppercased forms, hold for every match an entry with the match's
\* uppercased form, and each entry is the first match of its uppercased form, in
\* the order of these first matches.
C9_FilesDedupedByUpper ==
    epc = "returned" =>
        LET m == FindAll(text, 1)
            u == unique_files
        IN  /\ \A i, j \in DOMAIN u : i # j => Upper(u[i]) # Upper(u[j])
            /\ \A k \in DOMAIN m : \E i \in DOMAIN u : Upper(u[i]) = Upper(m[k])
            /\ \A i \in DOMAIN u :
                   /\ \E k \in DOMAIN m : Upper(m[k]) = Upper(u[i])
                   /\ u[i] = m[FirstUpper(m, Upper(u[i]))]
            /\ \A i, j \in DOMAIN u :
                   i < j => FirstUpper(m, Upper(u[i])) < FirstUpper(m, Upper(u[j]))

\* a.dat A.DAT B.DAT: the second match repeats the first in another casing
C9_Witness ==
    /\ epc = "returned"
    /\ FindAll(text, 1) = <<F_lower, F_upper, F_other>>
    /\ unique_files = <<F_lower, F_other>>


-----------------------------------------------------------------------------
(* actionable_ritm.py *)

\* dict.get(key, default)
Get(d, key, default) == IF key \in DOMAIN d THEN d[key] ELSE default

\* LoadedDates with a fault: `if date:` is lost and blank lines are added too
LoadedDatesKeepBlank(ls) == {Strip(ls[i]) : i \in DOMAIN ls}

\* load_open_dates, lines 23-30: the stripped, non-empty lines, as a set
LoadedDates(ls) == {Strip(ls[i]) : i \in DOMAIN ls} \ {<<>>}

\* filter_valid_records, lines 83-91
RECURSIVE FilterFrom(_, _, _)
FilterFrom(rs, dates, valid) ==
    IF rs = <<>> THEN valid
    ELSE LET completion_date == Get(rs[1], "u_desired_completion_date", <<>>)
         IN  IF completion_date \in dates
                 THEN FilterFrom(Tail(rs), dates, Append(valid, rs[1]))
                 ELSE FilterFrom(Tail(rs), dates, valid)

filter_valid_records(rs, dates) == FilterFrom(rs, dates, <<>>)

\* Input of the filter
MaxDateLines == 2
MaxFilterRecords == 3

Y_0305 == <<"2","0","2","4","/","0","3","/","0","5">>
Y_0306 == <<"2","0","2","4","/","0","3","/","0","6">>
L_0305 == <<"2","0","2","4","/","0","3","/","0","5","\n">>
L_0306 == <<" ","2","0","2","4","/","0","3","/","0","6"," ","\n">>
L_blank == <<" ","\n">>

DateLines == {L_0305, L_0306, L_blank}
FilterRecords ==
    {[number |-> n, u_desired_completion_date |-> d] :
        n \in {W_RITM1, W_RITM9}, d \in {Y_0305, Y_0306, <<>>}}
    \cup {[number |-> n] : n \in {W_RITM1, W_RITM9}}

FilterInit ==
    /\ date_lines \in SeqsUpTo(DateLines, MaxDateLines)
    /\ in_records \in SeqsUpTo(FilterRecords, MaxFilterRecords)
    /\ open_dates = {}
    /\ valid_records = <<>>
    /\ fpc = "load"
    /\ ParserIdle /\ ExtractIdle /\ RollerIdle

\* main, line 136: open_dates = load_open_dates(open_dates_file)
LoadOpenDates ==
    /\ fpc = "load"
    /\ open_dates' = LoadedDates(date_lines)
    /\ fpc' = "filter"
    /\ UNCHANGED <<date_lines, in_records, valid_records, pvars, evars, rvars>>

\* main, line 146: valid_records = filter_valid_records(records, open_dates)
FilterValidRecords ==
    /\ fpc = "filter"
    /\ valid_records' = filter_valid_records(in_records, open_dates)
    /\ fpc' = "returned"
    /\ UNCHANGED <<date_lines, in_records, open_dates, pvars, evars, rvars>>

FilterNext == LoadOpenDates \/ FilterValidRecords

FilterSpec == FilterInit /\ [][FilterNext]_vars

\* the record has a completion date and it is one of the allowed dates
Allowed(r) ==
    /\ "u_desired_completion_date" \in DOMAIN r
    /\ r.u_desired_completion_date \in open_dates

\* C7: the result of filter_valid_records is the subsequence of the input of the
\* records whose completion date is a member of the allowed set, in the order of
\* the input; no record with a missing or empty completion date is retained, and
\* an empty allowed set gives an empty result.
C7_FilterIsStableSubsequence ==
    fpc = "returned" =>
        /\ valid_records = SelectSeq(in_records, Allowed)
        /\ \A i \in DOMAIN valid_records :
               /\ "u_desired_completion_date" \in DOMAIN valid_records[i]
               /\ valid_records[i].u_desired_completion_date # <<>>
        /\ open_dates = {} => valid_records = <<>>

\* of three records the first and the last are retained, in that order, and the
\* middle one, with an empty or missing date, is dropped
C7_Witness ==
    /\ fpc = "returned"
    /\ Len(in_records) = 3
    /\ Get(in_records[2], "u_desired_completion_date", <<>>) = <<>>
    /\ valid_records = <<in_records[1], in_records[3]>>
    /\ in_records[1] # in_records[3]

-----------------------------------------------------------------------------
(* roller.py *)

DigitVal(c) == (CHOOSE i \in DOMAIN DigitChars : DigitChars[i] = c) - 1

\* int(s) for a string of digits
RECURSIVE ToInt(_)
ToInt(s) == IF s = <<>> THEN 0 ELSE 10 * ToInt(SubSeq(s, 1, Len(s) - 1)) + DigitVal(Last(s))

\* str(n), n >= 0
RECURSIVE Decimal(_)
Decimal(n) ==
    IF n < 10 THEN <<DigitChars[n + 1]>>
    ELSE Decimal(n \div 10) \o <<DigitChars[(n % 10) + 1]>>

\* %m and %d of strftime
TwoDigits(n) == <<DigitChars[(n \div 10) + 1], DigitChars[(n % 10) + 1]>>

NonZeroDigit(c) == IsDigit(c) /\ c # "0"

\* %Y, %m and %d of strptime: \d\d\d\d, 1[0-2]|0[1-9]|[1-9] and
\* 3[01]|[12]\d|0[1-9]|[1-9]| [1-9]
IsYearField(f) == Len(f) = 4 /\ \A i \in 1..4 : IsDigit(f[i])
IsMonthField(f) ==
    \/ Len(f) = 2 /\ f[1] = "1" /\ f[2] \in {"0", "1", "2"}
    \/ Len(f) = 2 /\ f[1] = "0" /\ NonZeroDigit(f[2])
    \/ Len(f) = 1 /\ NonZeroDigit(f[1])
IsDayField(f) ==
    \/ Len(f) = 2 /\ f[1] = "3" /\ f[2] \in {"0", "1"}
    \/ Len(f) = 2 /\ f[1] \in {"1", "2"} /\ IsDigit(f[2])
    \/ Len(f) = 2 /\ f[1] \in {"0", " "} /\ NonZeroDigit(f[2])
    \/ Len(f) = 1 /\ NonZeroDigit(f[1])

IsLeap(y) == y % 4 = 0 /\ (y % 100 # 0 \/ y % 400 = 0)
DaysInMonth(y, m) ==
    IF m = 2 THEN (IF IsLeap(y) THEN 29 ELSE 28)
    ELSE IF m \in {4, 6, 9, 11} THEN 30
    ELSE 31

\* parse_cob_date: datetime.strptime(date_str.strip(), "%Y/%m/%d") raises ValueError
\* unless the string has the three fields and they name a day of the calendar;
\* strftime("%Y%m%d") then writes the year as glibc does (unpadded below 1000)
\* and month and day on two digits
parse_cob_date(date_str) ==
    LET f == Split(Strip(date_str), "/")
        year == ToInt(f[1])
        month == ToInt(f[2])
        day == ToInt(Without(f[3], " "))
    IN  IF Len(f) = 3 /\ IsYearField(f[1]) /\ IsMonthField(f[2]) /\ IsDayField(f[3])
            THEN IF year >= 1 /\ day <= DaysInMonth(year, month)
                     THEN Returns(Decimal(year) \o TwoDigits(month) \o TwoDigits(day))
                     ELSE Raises
            ELSE Raises

\* defaultdict(lambda: {"ritms": [], "files": [], "seen_files": set()})
NewEntry == [ritms |-> <<>>, files |-> <<>>, seen_files |-> {}]

\* AddFiles with a fault: the test `if f not in entry["seen_files"]` is lost
RECURSIVE AddFilesNoSeenTest(_, _)
AddFilesNoSeenTest(entry, fs) ==
    IF fs = <<>> THEN entry
    ELSE AddFilesNoSeenTest([entry EXCEPT !.files = Append(@, fs[1]),
                                          !.seen_files = @ \cup {fs[1]}],
                            Tail(fs))

\* group_records_by_date, lines 40-43
RECURSIVE AddFiles(_, _)
AddFiles(entry, fs) ==
    IF fs = <<>> THEN entry
    ELSE IF fs[1] \notin entry.seen_files
        THEN AddFiles([entry EXCEPT !.files = Append(@, fs[1]),
                                    !.seen_files = @ \cup {fs[1]}],
                      Tail(fs))
        ELSE AddFiles(entry, Tail(fs))

\* Python's order of two strings of digits
StrLess(a, b) ==
    \E i \in 1..(Len(a) + 1) :
        /\ \A j \in 1..(i - 1) : j <= Len(b) /\ a[j] = b[j]
        /\ \/ i = Len(a) + 1 /\ Len(b) >= i
           \/ i <= Len(a) /\ i <= Len(b) /\ DigitVal(a[i]) < DigitVal(b[i])

\* the keys in the order of sorted(grouped.items())
RECURSIVE SortedKeys(_)
SortedKeys(S) ==
    IF S = {} THEN <<>>
    ELSE LET least == CHOOSE x \in S : \A y \in S \ {x} : StrLess(x, y)
         IN  <<least>> \o SortedKeys(S \ {least})

\* write_deals_dat, line 21: "\n".join(files) + "\n"
ManifestText(files) == Join(files, <<"\n">>) \o <<"\n">>

NoFile == [exists |-> FALSE, content |-> <<>>]
File(content) == [exists |-> TRUE, content |-> content]

\* Input of the roller: records as the Line Parser writes them
MaxRecords == 2

D_next == <<"0","2","/","0","3","/","2","0","2","4">>
D_unpadded == <<"5","/","3","/","2","0","2","4">>
F_third == <<"C",".","D","A","T">>

RollerDates == {parse_date(t).val : t \in {D_ok, D_next, D_feb31, D_unpadded}}
RollerFiles == {<<>>, <<F_upper, F_other>>, <<F_other, F_third>>, <<F_lower, F_upper, F_upper>>}
RollerRecords ==
    {[number |-> n, u_desired_completion_date |-> d, files |-> f] :
        n \in {W_RITM1, W_RITM9}, d \in RollerDates, f \in RollerFiles}

RollerInit ==
    /\ json_records \in SeqsUpTo(RollerRecords, MaxRecords)
    /\ rec_i = 0
    /\ cob_date = <<>>
    /\ grouped = <<>>
    /\ todo = <<>>
    /\ staging = NoFile
    /\ dest = <<>>
    /\ rpc = "group"
    /\ ParserIdle /\ ExtractIdle /\ FilterIdle

\* main, lines 84-87: without records the script ends before grouping
NoRecords ==
    /\ rpc = "group"
    /\ json_records = <<>>
    /\ rpc' = "exit"
    /\ UNCHANGED <<json_records, rec_i, cob_date, grouped, todo, staging, dest>>
    /\ UNCHANGED <<pvars, evars, fvars>>

\* group_records_by_date, lines 34-43: one pass of the for loop; the ValueError of
\* parse_cob_date is caught nowhere and ends the script
GroupRecord ==
    /\ rpc = "group"
    /\ rec_i < Len(json_records)
    /\ LET record == json_records[rec_i + 1]
           key == parse_cob_date(record["u_desired_completion_date"])
           entry == IF key.val \in DOMAIN grouped THEN grouped[key.val] ELSE NewEntry
           withRitm == [entry EXCEPT !.ritms = Append(@, Get(record, "number", <<"N", "/", "A">>))]
           updated == AddFiles(withRitm, Get(record, "files", <<>>))
       IN  IF key.ok
               THEN /\ cob_date' = key.val
                    /\ grouped' = [k \in DOMAIN grouped \cup {key.val} |->
                                      IF k = key.val THEN updated ELSE grouped[k]]
                    /\ rec_i' = rec_i + 1
                    /\ UNCHANGED rpc
               ELSE /\ rpc' = "raised"
                    /\ UNCHANGED <<cob_date, grouped, rec_i>>
    /\ UNCHANGED <<json_records, todo, staging, dest>>
    /\ UNCHANGED <<pvars, evars, fvars>>

\* group_records_by_date, lines 45-46, and process_grouped, line 50: the groups
\* are returned without seen_files and their keys sorted
GroupReturn ==
    /\ rpc = "group"
    /\ json_records # <<>>
    /\ rec_i = Len(json_records)
    /\ grouped' = [k \in DOMAIN grouped |->
                      [ritms |-> grouped[k].ritms, files |-> grouped[k].files]]
    /\ todo' = SortedKeys(DOMAIN grouped)
    /\ rpc' = "process"
    /\ UNCHANGED <<json_records, rec_i, cob_date, staging, dest>>
    /\ UNCHANGED <<pvars, evars, fvars>>

\* WriteDealsDat with a fault: the test `if not files: continue` is lost
WriteDealsDatNoSkip ==
    /\ rpc = "process"
    /\ todo # <<>>
    /\ staging' = File(ManifestText(grouped[Head(todo)].files))
    /\ rpc' = "copy"
    /\ UNCHANGED todo
    /\ UNCHANGED <<json_records, rec_i, cob_date, grouped, dest>>
    /\ UNCHANGED <<pvars, evars, fvars>>

\* process_grouped, lines 50-64: the next group; a group without files is
\* skipped, else write_deals_dat overwrites tmp/DEALS.DAT
WriteDealsDat ==
    /\ rpc = "process"
    /\ todo # <<>>
    /\ LET files == grouped[Head(todo)].files
       IN  IF files = <<>>
               THEN /\ todo' = Tail(todo)
                    /\ UNCHANGED <<staging, rpc>>
               ELSE /\ staging' = File(ManifestText(files))
                    /\ rpc' = "copy"
                    /\ UNCHANGED todo
    /\ UNCHANGED <<json_records, rec_i, cob_date, grouped, dest>>
    /\ UNCHANGED <<pvars, evars, fvars>>

\* process_grouped, line 66, copy_deals_dat: the directory of the COB date is
\* made and tmp/DEALS.DAT copied into it
CopyDealsDat ==
    /\ rpc = "copy"
    /\ dest' = [k \in DOMAIN dest \cup {Head(todo)} |->
                   IF k = Head(todo) THEN staging.content ELSE dest[k]]
    /\ todo' = Tail(todo)
    /\ rpc' = "process"
    /\ UNCHANGED <<json_records, rec_i, cob_date, grouped, staging>>
    /\ UNCHANGED <<pvars, evars, fvars>>

\* process_grouped returns once the loop of line 50 is exhausted
ProcessDone ==
    /\ rpc = "process"
    /\ todo = <<>>
    /\ rpc' = "done"
    /\ UNCHANGED <<json_records, rec_i, cob_date, grouped, todo, staging, dest>>
    /\ UNCHANGED <<pvars, evars, fvars>>

RollerNext ==
    NoRecords \/ GroupRecord \/ GroupReturn \/ WriteDealsDat \/ CopyDealsDat \/ ProcessDone

RollerSpec == RollerInit /\ [][RollerNext]_vars

-----------------------------------------------------------------------------
(* Claims about roller.py, under RollerSpec *)

\* C4: the group key of every record is its completion date without the
\* separators, whatever the date: no date makes the grouping fail, and the key
\* has the digits of the date in the same order.
C4_KeyIsDateWithoutSeparators ==
    /\ rpc # "raised"
    /\ (rpc = "group" /\ rec_i > 0) =>
           cob_date = Without(json_records[rec_i].u_desired_completion_date, "/")

\* the records consumed so far by group_records_by_date
Consumed == SubSeq(json_records, 1, rec_i)

KeyOf(r) == parse_cob_date(r.u_desired_completion_date).val

\* the elements of a sequence of sequences, in order
RECURSIVE Concat(_)
Concat(qs) == IF qs = <<>> THEN <<>> ELSE qs[1] \o Concat(Tail(qs))

FirstIndex(q, x) == CHOOSE i \in DOMAIN q : q[i] = x /\ \A j \in 1..(i - 1) : q[j] # x

\* u holds the elements of q once each, in the order of their first occurrences in q
IsFirstSeenOrder(u, q) ==
    /\ Range(u) = Range(q)
    /\ \A i, j \in DOMAIN u : i < j => u[i] # u[j] /\ FirstIndex(q, u[i]) < FirstIndex(q, u[j])

\* C6: for each COB key the group holds as ritms the numbers of the records of
\* that key, in input order with repeats, and as files the files of those records
\* in first-seen order without exact repeats; every record is in exactly one group,
\* that of its key.
C6_GroupsHoldRitmsAndDistinctFiles ==
    rpc \in {"group", "process", "copy", "done", "raised"} =>
        /\ DOMAIN grouped = {KeyOf(Consumed[i]) : i \in DOMAIN Consumed}
        /\ \A k \in DOMAIN grouped :
               LET InGroup(r) == KeyOf(r) = k
                   mine == SelectSeq(Consumed, InGroup)
               IN  /\ grouped[k].ritms = [i \in DOMAIN mine |-> mine[i].number]
                   /\ IsFirstSeenOrder(grouped[k].files,
                                       Concat([i \in DOMAIN mine |-> mine[i].files]))

\* two records of one COB date, A.DAT B.DAT and B.DAT C.DAT: both numbers, and
\* B.DAT once
C6_Witness ==
    /\ rpc = "process"
    /\ \E k \in DOMAIN grouped :
           /\ grouped[k].ritms = <<W_RITM1, W_RITM9>>
           /\ grouped[k].files = <<F_upper, F_other, F_third>>

\* the lines of a manifest that ends with a newline
ManifestLines(content) == Split(SubSeq(content, 1, Len(content) - 1), "\n")

\* the keys process_grouped has dealt with
Handled == {k \in DOMAIN grouped : \A i \in DOMAIN todo : todo[i] # k}

\* C5: a manifest exists in the directory of COB date d exactly for the groups
\* with files, and holds that group's files, one per line, in order, with a final
\* newline; groups are handled in ascending key order, a group's write and copy
\* are over before the next group's write, and a group without files makes no
\* directory and leaves the staging file alone.
C5_ManifestPerGroupWithFiles ==
    rpc \in {"process", "copy", "done"} =>
        /\ \A k \in DOMAIN dest :
               /\ k \in Handled
               /\ grouped[k].files # <<>>
               /\ Last(dest[k]) = "\n"
               /\ ManifestLines(dest[k]) = grouped[k].files
        /\ \A k \in Handled : grouped[k].files # <<>> => k \in DOMAIN dest
        /\ \A k \in Handled : \A i \in DOMAIN todo : StrLess(k, todo[i])
        /\ \A i, j \in DOMAIN todo : i < j => StrLess(todo[i], todo[j])
        /\ rpc = "copy" =>
               /\ staging.exists
               /\ Head(todo) \notin DOMAIN dest
               /\ ManifestLines(staging.content) = grouped[Head(todo)].files
        /\ staging.exists =>
               \E k \in DOMAIN grouped :
                   /\ grouped[k].files # <<>>
                   /\ k \in Handled \/ (rpc = "copy" /\ k = Head(todo))
                   /\ staging.content = ManifestText(grouped[k].files)
        /\ rpc = "done" => todo = <<>>

\* two groups with different files were written through the one staging file,
\* and each directory holds its own group's list
C5_Witness ==
    /\ rpc = "done"
    /\ Cardinality(DOMAIN dest) = 2
    /\ \E j, k \in DOMAIN dest : dest[j] # dest[k]

\* a run with a group without files beside a group with files
C5_SkipWitness ==
    /\ rpc = "done"
    /\ Cardinality(DOMAIN grouped) = 2
    /\ Cardinality(DOMAIN dest) = 1

=============================================================================
